---- MODULE Spec2Model ----
(***************************************************************************)
(* A model of src/api.py: the FastAPI layer (POST /generate_image and      *)
(* GET /download_image/{image_name}) over the singleton FluxGenerator, and *)
(* FluxGenerator.generate_image with its CPU/GPU offload schedule.         *)
(*                                                                         *)
(* Strings the code inspects (image names, the seed string) are sequences  *)
(* of one-character strings.  Optional values (None or a value) are sets   *)
(* with at most one element.  true_cfg is a fixed-point number in units of *)
(* 1/CfgUnit; for such dyadic values the float expression of line 119 is   *)
(* exact.  The external libraries (flux.*, pulid.*, torch, PIL) are        *)
(* modelled by their call contracts: what they are handed, whether they    *)
(* return or raise, and which device a module is on afterwards.            *)
(***************************************************************************)
EXTENDS Integers, Sequences, FiniteSets, TLC

\* ---------------------------------------------------------------- bounds
\* The random sources uuid.uuid4() draws from in the model.
UuidSources == {1, 2}
\* torch.Generator().seed() draws a fresh seed from 0..MaxFresh.
MaxFresh == 1
\* The concurrent HTTP requests (connections) the server handles.
Reqs == {1, 2}
\* Seeds a client asks for (the endpoint's `seed: int`).
SeedInputs == {-1, -20, 42}

\* ------------------------------------------------------------- characters
HexLower == <<"0","1","2","3","4","5","6","7","8","9","a","b","c","d","e","f">>
DecDigits == <<"0","1","2","3","4","5","6","7","8","9">>
HexChars == {"0","1","2","3","4","5","6","7","8","9",
             "a","b","c","d","e","f","A","B","C","D","E","F"}

\* The character class [0-9a-fA-F-] of the pattern of download_image.
NameClass == HexChars \cup {"-"}

\* Number of characters the pattern's {36} asks for.
NameLen == 36

PngSuffix == <<".", "p", "n", "g">>

\* re.match(r"^[0-9a-fA-F-]{36}\.png$", s): anchored at the start; Python's $
\* matches at the end of the string and also before a newline that ends it.
RegexMatch(s) ==
    /\ Len(s) >= NameLen + 4
    /\ \A i \in 1..NameLen : s[i] \in NameClass
    /\ SubSeq(s, NameLen + 1, NameLen + 4) = PngSuffix
    /\ \/ Len(s) = NameLen + 4
       \/ Len(s) = NameLen + 5 /\ s[NameLen + 5] = "\n"

\* uuid.uuid4(): 32 hex digits from a random source, with the version digit
\* set to 4 and the high bits of the variant digit set to binary 10.
Uuid4Hex(src) ==
    [i \in 1..32 |->
        IF i = 13 THEN "4"
        ELSE IF i = 17 THEN HexLower[9 + (src % 4)]
        ELSE HexLower[1 + ((7 * i + 5 * src) % 16)]]

\* str(UUID): the hex digits in groups of 8-4-4-4-12 joined by hyphens.
UuidStr(h) ==
    SubSeq(h, 1, 8) \o <<"-">> \o SubSeq(h, 9, 12) \o <<"-">> \o
    SubSeq(h, 13, 16) \o <<"-">> \o SubSeq(h, 17, 20) \o <<"-">> \o
    SubSeq(h, 21, 32)

\* f"{random_new_output_id}.png"
ImageNameNoSuffix(id) == id
ImageName(id) == id \o PngSuffix

\* str(n) of a Python int: decimal digits, a leading minus sign when n < 0.
RECURSIVE NatStr(_)
NatStr(n) == IF n < 10 THEN <<DecDigits[n + 1]>>
             ELSE NatStr(n \div 10) \o <<DecDigits[(n % 10) + 1]>>
IntStr(n) == IF n < 0 THEN <<"-">> \o NatStr(-n) ELSE NatStr(n)

\* str(opts.seed) of the return statement; opts.seed is None ({}) or an int.
SeedStr(s) == IF s = {} THEN <<"N","o","n","e">>
              ELSE IntStr(CHOOSE n \in s : TRUE)

\* ------------------------------------------------------------ parameters
\* 1.0 of line 119 in the fixed-point unit of true_cfg.
CfgUnit == 1024
\* true_cfg values a client sends: 1.0, just inside and just outside the
\* 0.01 band above 1.0, and just outside it below 1.0.
CfgInputs == {CfgUnit, CfgUnit + 10, CfgUnit + 11, CfgUnit - 11}
\* max_sequence_length values a client sends (t5 is loaded with 128).
MaxLenInputs == {256}

Abs(x) == IF x < 0 THEN -x ELSE x

\* use_true_cfg = abs(true_cfg - 1.0) > 1e-2
UseTrueCfgOneSided(true_cfg) == 100 * (true_cfg - CfgUnit) > CfgUnit
UseTrueCfg(true_cfg) == 100 * Abs(true_cfg - CfgUnit) > CfgUnit

\* seed = int(seed); if seed == -1: seed = None   (None is {})
SeedOptKeepsMinusOne(seed) == {seed}
SeedOpt(seed) == IF seed = -1 THEN {} ELSE {seed}

\* The values torch.Generator(device="cpu").seed() can return (unsigned).
FreshSeeds == 0..MaxFresh

\* --------------------------------------------------------------- devices
\* The module groups generate_image moves: T5+CLIP, the PuLID components,
\* the diffusion backbone and the autoencoder decoder.
Groups == {"te", "pulid", "model", "ae"}
\* generator = FluxGenerator("flux-dev", "cuda", ...)
Device == "cuda"

\* get_models and FluxGenerator.__init__: T5 and CLIP are loaded on the
\* device; the backbone, the autoencoder and PuLID on the CPU when offloading.
\* (Lines 71-79 put face_det.mean_tensor and the pipeline's device attributes
\* on cuda; these are a tensor and attributes, not the modules of a group.)
InitLoc(off) ==
    [g \in Groups |-> IF g = "te" THEN Device
                      ELSE IF off THEN "cpu" ELSE Device]

\* self.t5, self.clip = self.t5.to(self.device), self.clip.to(self.device)
TextEncodersToDevice(l) == [l EXCEPT !["te"] = Device]
\* self.t5, self.clip = self.t5.cpu(), self.clip.cpu()
TextEncodersStay(l) == l
TextEncodersToCpu(l) == [l EXCEPT !["te"] = "cpu"]
\* self.pulid_model.components_to_device(torch.device("cuda"))
PulidToCuda(l) == [l EXCEPT !["pulid"] = "cuda"]
\* self.pulid_model.components_to_device(torch.device("cpu"))
PulidToCpu(l) == [l EXCEPT !["pulid"] = "cpu"]
\* self.model.components_to_gpu() or self.model = self.model.to(self.device)
BackboneToGpuNotAggressive(l, aggressive) ==
    IF aggressive THEN l ELSE [l EXCEPT !["model"] = Device]
BackboneToGpu(l, aggressive) ==
    IF aggressive THEN [l EXCEPT !["model"] = "cuda"]
    ELSE [l EXCEPT !["model"] = Device]
\* self.model.cpu()
BackboneToCpu(l) == [l EXCEPT !["model"] = "cpu"]
\* self.ae.decoder.to(x.device)
DecoderTo(l, x_device) == [l EXCEPT !["ae"] = x_device]
\* self.ae.decoder.cpu()
DecoderToCpu(l) == [l EXCEPT !["ae"] = "cpu"]

\* An exception leaves generate_image through no handler: there is no
\* try/finally, so the placement is what it was when the stage raised.
PlacementAfterRaiseCleanup(l) == [g \in Groups |-> "cpu"]
PlacementAfterRaise(l) == l

\* ----------------------------------------------------------------- state
VARIABLES
    offload,             \* generator.offload
    aggressive_offload,  \* generator.aggressive_offload
    loc,                 \* device of each module group of the generator
    t5_max_length,       \* generator.t5.max_length
    running,             \* the request whose coroutine the event loop runs; 0: none
    pc,                  \* each request's position
    call,                \* each request's locals in the handler and generate_image
    resp,                \* each request's response
    files,               \* the names of the files in OUTPUT_FOLDER
    errors               \* some generate_image call has raised

vars == <<offload, aggressive_offload, loc, t5_max_length, running, pc, call,
          resp, files, errors>>

NoDenoise == [neg_txt |-> "unset", neg_txt_ids |-> "unset", neg_vec |-> "unset",
              id |-> "unset", uncond_id |-> "unset"]

NoCall == [req_seed |-> 0, seed |-> {}, noise_seed |-> {}, true_cfg |-> CfgUnit,
           has_id |-> FALSE, use_true_cfg |-> FALSE, x_device |-> "none",
           inp |-> "unset", inp_neg |-> "unset",
           id_embeddings |-> "unset", uncond_id_embeddings |-> "unset",
           cal_uncond |-> {}, dn |-> NoDenoise, none_indexed |-> FALSE,
           log |-> <<>>, missed |-> {}, seed_output |-> <<>>,
           image_name |-> <<>>]

NoResp == [status |-> 0, body |-> "none", image |-> <<>>, seed |-> <<>>,
           req_seed |-> 0, noise_seed |-> {}, req_name |-> <<>>,
           exists_called |-> FALSE]

Init ==
    /\ offload \in BOOLEAN
    /\ aggressive_offload \in BOOLEAN
    /\ loc = InitLoc(offload)
    /\ t5_max_length = 128
    /\ running = 0
    /\ pc = [r \in Reqs |-> "idle"]
    /\ call = [r \in Reqs |-> NoCall]
    /\ resp = [r \in Reqs |-> NoResp]
    /\ files = {}
    /\ errors = FALSE

\* ------------------------------------------------------------ event loop
\* Both endpoints are `async def`: uvicorn's single event loop runs a handler
\* coroutine on its one thread until the coroutine awaits or ends.
LoopFreeThreadPool == TRUE
LoopFree == running = 0

\* A stage finds its module group `g` on the GPU, or is noted as missed.
Ran(c, stage, g) ==
    [c EXCEPT !.log = Append(@, stage),
              !.missed = IF loc[g] = "cuda" THEN @ ELSE @ \cup {stage}]

\* if id_image is not None:
NeedsIdEmbeddingAlways(c) == TRUE
NeedsIdEmbedding(c) == c.has_id

\* A client opens a connection and sends a request.
Arrive(r) ==
    /\ pc[r] = "idle"
    /\ pc' = [pc EXCEPT ![r] = "pending"]
    /\ UNCHANGED <<offload, aggressive_offload, loc, t5_max_length, running,
                   call, resp, files, errors>>

\* generate_image_endpoint up to the call, and generate_image up to get_schedule:
\* t5.max_length is written, the seed is normalised and drawn, use_true_cfg is
\* computed and the noise is made on self.device.
StartGenerate(r, seed, true_cfg, has_id, max_len) ==
    /\ pc[r] = "pending"
    /\ LoopFree
    /\ running' = r
    /\ t5_max_length' = max_len
    /\ \E fresh \in FreshSeeds :
         LET opt == SeedOpt(seed)
             optsSeed == IF opt = {} THEN {fresh} ELSE opt
         IN call' = [call EXCEPT ![r] =
                [NoCall EXCEPT !.req_seed = seed, !.seed = optsSeed,
                               !.noise_seed = optsSeed,
                               !.true_cfg = true_cfg, !.has_id = has_id,
                               !.use_true_cfg = UseTrueCfg(true_cfg),
                               !.x_device = Device]]
    /\ pc' = [pc EXCEPT ![r] = "te_to_gpu"]
    /\ resp' = [resp EXCEPT ![r] = [NoResp EXCEPT !.req_seed = seed]]
    /\ UNCHANGED <<offload, aggressive_offload, loc, files, errors>>

\* if self.offload: t5 and clip to self.device
TeToGpu(r) ==
    /\ pc[r] = "te_to_gpu" /\ running = r
    /\ loc' = IF offload THEN TextEncodersToDevice(loc) ELSE loc
    /\ pc' = [pc EXCEPT ![r] = "prepare"]
    /\ UNCHANGED <<offload, aggressive_offload, t5_max_length, running, call,
                   resp, files, errors>>

\* inp = prepare(t5, clip, img=x, prompt=opts.prompt)
Prepare(r) ==
    /\ pc[r] = "prepare" /\ running = r
    /\ call' = [call EXCEPT ![r] = [Ran(@, "prepare", "te") EXCEPT !.inp = "enc"]]
    /\ pc' = [pc EXCEPT ![r] = "prepare_neg"]
    /\ UNCHANGED <<offload, aggressive_offload, loc, t5_max_length, running,
                   resp, files, errors>>

\* inp_neg = prepare(..., prompt=neg_prompt) if use_true_cfg else None
PrepareNeg(r) ==
    /\ pc[r] = "prepare_neg" /\ running = r
    /\ call' = [call EXCEPT ![r] =
                  IF @.use_true_cfg
                  THEN [Ran(@, "prepare_neg", "te") EXCEPT !.inp_neg = "enc"]
                  ELSE [@ EXCEPT !.inp_neg = "None"]]
    /\ pc' = [pc EXCEPT ![r] = "te_to_cpu"]
    /\ UNCHANGED <<offload, aggressive_offload, loc, t5_max_length, running,
                   resp, files, errors>>

\* if self.offload: t5 and clip to the CPU
TeToCpu(r) ==
    /\ pc[r] = "te_to_cpu" /\ running = r
    /\ loc' = IF offload THEN TextEncodersToCpu(loc) ELSE loc
    /\ pc' = [pc EXCEPT ![r] = "pulid_to_gpu"]
    /\ UNCHANGED <<offload, aggressive_offload, t5_max_length, running, call,
                   resp, files, errors>>

\* if self.offload: the PuLID components to cuda
PulidToGpu(r) ==
    /\ pc[r] = "pulid_to_gpu" /\ running = r
    /\ loc' = IF offload THEN PulidToCuda(loc) ELSE loc
    /\ pc' = [pc EXCEPT ![r] = "id_embed"]
    /\ UNCHANGED <<offload, aggressive_offload, t5_max_length, running, call,
                   resp, files, errors>>

\* get_id_embedding(id_image, cal_uncond=use_true_cfg), or None and None
IdEmbed(r) ==
    /\ pc[r] = "id_embed" /\ running = r
    /\ LET c == call[r] IN
       call' = [call EXCEPT ![r] =
                  IF NeedsIdEmbedding(c)
                  THEN [Ran(c, "get_id_embedding", "pulid") EXCEPT
                          !.cal_uncond = {c.use_true_cfg},
                          !.id_embeddings = "emb",
                          !.uncond_id_embeddings =
                              IF c.use_true_cfg THEN "emb" ELSE "None"]
                  ELSE [c EXCEPT !.id_embeddings = "None",
                                 !.uncond_id_embeddings = "None"]]
    /\ pc' = [pc EXCEPT ![r] = "pulid_to_cpu"]
    /\ UNCHANGED <<offload, aggressive_offload, loc, t5_max_length, running,
                   resp, files, errors>>

\* if self.offload: the PuLID components to the CPU
PulidOffload(r) ==
    /\ pc[r] = "pulid_to_cpu" /\ running = r
    /\ loc' = IF offload THEN PulidToCpu(loc) ELSE loc
    /\ pc' = [pc EXCEPT ![r] = "model_to_gpu"]
    /\ UNCHANGED <<offload, aggressive_offload, t5_max_length, running, call,
                   resp, files, errors>>

\* if self.offload: the backbone to the GPU
ModelToGpu(r) ==
    /\ pc[r] = "model_to_gpu" /\ running = r
    /\ loc' = IF offload THEN BackboneToGpu(loc, aggressive_offload) ELSE loc
    /\ pc' = [pc EXCEPT ![r] = "denoise"]
    /\ UNCHANGED <<offload, aggressive_offload, t5_max_length, running, call,
                   resp, files, errors>>

\* inp_neg["txt"]: subscripting None raises TypeError.
Subscript(v) == IF v = "None" THEN "TypeError" ELSE "tensor"

\* The HTTP 500 the framework answers when the handler raises.
ErrorResp(old) == [old EXCEPT !.status = 500, !.body = "error"]

\* x = denoise(self.model, **inp, ..., id=id_embeddings, uncond_id=...,
\*             neg_txt=inp_neg["txt"] if use_true_cfg else None, ...)
Denoise(r) ==
    /\ pc[r] = "denoise" /\ running = r
    /\ LET c == call[r]
           neg == IF c.use_true_cfg THEN Subscript(c.inp_neg) ELSE "None"
       IN IF neg = "TypeError"
          THEN /\ call' = [call EXCEPT ![r] = [NoCall EXCEPT !.none_indexed = TRUE]]
               /\ pc' = [pc EXCEPT ![r] = "failed"]
               /\ resp' = [resp EXCEPT ![r] = ErrorResp(@)]
               /\ running' = 0
               /\ errors' = TRUE
          ELSE /\ call' = [call EXCEPT ![r] =
                     [Ran(c, "denoise", "model") EXCEPT
                        !.dn = [neg_txt |-> neg, neg_txt_ids |-> neg,
                                neg_vec |-> neg, id |-> c.id_embeddings,
                                uncond_id |-> c.uncond_id_embeddings]]]
               /\ pc' = [pc EXCEPT ![r] = "model_to_cpu"]
               /\ UNCHANGED <<resp, running, errors>>
    /\ UNCHANGED <<offload, aggressive_offload, loc, t5_max_length, files>>

\* if self.offload: the backbone to the CPU
ModelToCpu(r) ==
    /\ pc[r] = "model_to_cpu" /\ running = r
    /\ loc' = IF offload THEN BackboneToCpu(loc) ELSE loc
    /\ pc' = [pc EXCEPT ![r] = "ae_to_gpu"]
    /\ UNCHANGED <<offload, aggressive_offload, t5_max_length, running, call,
                   resp, files, errors>>

\* if self.offload: the decoder to x.device
AeToGpu(r) ==
    /\ pc[r] = "ae_to_gpu" /\ running = r
    /\ loc' = IF offload THEN DecoderTo(loc, call[r].x_device) ELSE loc
    /\ pc' = [pc EXCEPT ![r] = "decode"]
    /\ UNCHANGED <<offload, aggressive_offload, t5_max_length, running, call,
                   resp, files, errors>>

\* x = unpack(...); x = self.ae.decode(x)
Decode(r) ==
    /\ pc[r] = "decode" /\ running = r
    /\ call' = [call EXCEPT ![r] = Ran(@, "decode", "ae")]
    /\ pc' = [pc EXCEPT ![r] = "ae_to_cpu"]
    /\ UNCHANGED <<offload, aggressive_offload, loc, t5_max_length, running,
                   resp, files, errors>>

\* if self.offload: the decoder to the CPU
AeToCpu(r) ==
    /\ pc[r] = "ae_to_cpu" /\ running = r
    /\ loc' = IF offload THEN DecoderToCpu(loc) ELSE loc
    /\ pc' = [pc EXCEPT ![r] = "to_pil"]
    /\ UNCHANGED <<offload, aggressive_offload, t5_max_length, running, call,
                   resp, files, errors>>

\* clamp, rearrange, Image.fromarray; return img, str(opts.seed), debug list
ToPil(r) ==
    /\ pc[r] = "to_pil" /\ running = r
    /\ call' = [call EXCEPT ![r] =
                  [@ EXCEPT !.log = Append(@, "to_pil"),
                            !.seed_output = SeedStr(call[r].seed)]]
    /\ pc' = [pc EXCEPT ![r] = "save"]
    /\ UNCHANGED <<offload, aggressive_offload, loc, t5_max_length, running,
                   resp, files, errors>>

\* The stages that call into the external pipeline and can raise there.
CanRaise(r) ==
    \/ pc[r] \in {"prepare", "denoise", "decode"}
    \/ pc[r] = "prepare_neg" /\ call[r].use_true_cfg
    \/ pc[r] = "id_embed" /\ NeedsIdEmbedding(call[r])

\* A stage raises: the exception leaves generate_image and the handler, and
\* the framework answers 500.
StageRaises(r) ==
    /\ running = r
    /\ CanRaise(r)
    /\ loc' = PlacementAfterRaise(loc)
    /\ pc' = [pc EXCEPT ![r] = "failed"]
    /\ call' = [call EXCEPT ![r] = NoCall]
    /\ resp' = [resp EXCEPT ![r] = ErrorResp(@)]
    /\ running' = 0
    /\ errors' = TRUE
    /\ UNCHANGED <<offload, aggressive_offload, t5_max_length, files>>

\* random_new_output_id = str(uuid.uuid4()); image_name; output_image.save
Save(r, src) ==
    /\ pc[r] = "save" /\ running = r
    /\ LET name == ImageName(UuidStr(Uuid4Hex(src)))
       IN /\ call' = [call EXCEPT ![r].image_name = name]
          /\ files' = files \cup {name}
    /\ pc' = [pc EXCEPT ![r] = "respond"]
    /\ UNCHANGED <<offload, aggressive_offload, loc, t5_max_length, running,
                   resp, errors>>

\* return JSONResponse(content={"image": ..., "seed": ..., ...})
Respond(r) ==
    /\ pc[r] = "respond" /\ running = r
    /\ resp' = [resp EXCEPT ![r] =
                  [@ EXCEPT !.status = 200, !.body = "json",
                            !.image = call[r].image_name,
                            !.seed = call[r].seed_output,
                            !.noise_seed = call[r].noise_seed]]
    /\ call' = [call EXCEPT ![r] = NoCall]
    /\ pc' = [pc EXCEPT ![r] = "responded"]
    /\ running' = 0
    /\ UNCHANGED <<offload, aggressive_offload, loc, t5_max_length, files,
                   errors>>

\* download_image: the format check, then os.path.exists, then FileResponse.
DownloadRespExistsFirst(name, folder) ==
    IF name \notin folder
    THEN [NoResp EXCEPT !.status = 404, !.body = "Image not found",
                        !.req_name = name, !.exists_called = TRUE]
    ELSE IF ~RegexMatch(name)
    THEN [NoResp EXCEPT !.status = 400, !.body = "Invalid image name format",
                        !.req_name = name, !.exists_called = TRUE]
    ELSE [NoResp EXCEPT !.status = 200, !.body = "image/png", !.image = name,
                        !.req_name = name, !.exists_called = TRUE]
DownloadResp(name, folder) ==
    IF ~RegexMatch(name)
    THEN [NoResp EXCEPT !.status = 400, !.body = "Invalid image name format",
                        !.req_name = name]
    ELSE IF name \notin folder
    THEN [NoResp EXCEPT !.status = 404, !.body = "Image not found",
                        !.req_name = name, !.exists_called = TRUE]
    ELSE [NoResp EXCEPT !.status = 200, !.body = "image/png", !.image = name,
                        !.req_name = name, !.exists_called = TRUE]

Download(r, name) ==
    /\ pc[r] = "pending"
    /\ LoopFree
    /\ resp' = [resp EXCEPT ![r] = DownloadResp(name, files)]
    /\ pc' = [pc EXCEPT ![r] = "responded"]
    /\ UNCHANGED <<offload, aggressive_offload, loc, t5_max_length, running,
                   call, files, errors>>

\* The client has its response and the connection ends.
Close(r) ==
    /\ pc[r] \in {"responded", "failed"}
    /\ pc' = [pc EXCEPT ![r] = "idle"]
    /\ resp' = [resp EXCEPT ![r] = NoResp]
    /\ UNCHANGED <<offload, aggressive_offload, loc, t5_max_length, running,
                   call, files, errors>>

\* ------------------------------------------------------- request inputs
Repeat(ch, n) == [i \in 1..n |-> ch]
UuidNames == {ImageName(UuidStr(Uuid4Hex(src))) : src \in UuidSources}
FirstName == ImageName(UuidStr(Uuid4Hex(1)))
\* Names a client asks to download: the names the server hands out, and
\* names it never hands out.
HyphensName == Repeat("-", NameLen) \o PngSuffix
NewlineName == FirstName \o <<"\n">>
JpgName == UuidStr(Uuid4Hex(1)) \o <<".", "j", "p", "g">>
TraversalName == <<".", ".", "/", "a", "p", "i", ".", "p", "y">>
DownloadNames ==
    UuidNames \cup {HyphensName, NewlineName, JpgName, TraversalName}

Next ==
    \E r \in Reqs :
        \/ Arrive(r)
        \/ \E seed \in SeedInputs, true_cfg \in CfgInputs,
              has_id \in BOOLEAN, max_len \in MaxLenInputs :
                StartGenerate(r, seed, true_cfg, has_id, max_len)
        \/ TeToGpu(r)
        \/ Prepare(r)
        \/ PrepareNeg(r)
        \/ TeToCpu(r)
        \/ PulidToGpu(r)
        \/ IdEmbed(r)
        \/ PulidOffload(r)
        \/ ModelToGpu(r)
        \/ Denoise(r)
        \/ ModelToCpu(r)
        \/ AeToGpu(r)
        \/ Decode(r)
        \/ AeToCpu(r)
        \/ ToPil(r)
        \/ StageRaises(r)
        \/ \E src \in UuidSources : Save(r, src)
        \/ Respond(r)
        \/ \E name \in DownloadNames : Download(r, name)
        \/ Close(r)

Spec == Init /\ [][Next]_vars

\* ======================================================================
\* Properties
\* ======================================================================
\* The positions inside the handler of POST /generate_image.
HandlerPcs == {"te_to_gpu", "prepare", "prepare_neg", "te_to_cpu",
               "pulid_to_gpu", "id_embed", "pulid_to_cpu", "model_to_gpu",
               "denoise", "model_to_cpu", "ae_to_gpu", "decode", "ae_to_cpu",
               "to_pil", "save", "respond"}
\* The positions after generate_image has returned to the handler.
ReturnedPcs == {"save", "respond"}

IsPrefix(a, b) == Len(a) <= Len(b) /\ SubSeq(b, 1, Len(a)) = a

Count(seq, x) == Cardinality({i \in 1..Len(seq) : seq[i] = x})

\* The five stages in the order the claim gives; the second prepare call
\* belongs to the text-encoding stage.
StagesOf(log) == SelectSeq(log, LAMBDA x : x # "prepare_neg")
StageOrder(has_id) ==
    <<"prepare">> \o (IF has_id THEN <<"get_id_embedding">> ELSE <<>>) \o
    <<"denoise", "decode", "to_pil">>

\* C1: every generate_image call runs text encoding, identity embedding
\* (only with an id image), denoise, decode and the PIL conversion in this one
\* order, whatever the inputs and the offload flags: at every point of a call
\* the stages run so far are a prefix of that order, and a call that has
\* returned has run all of them, each once.
C1_FixedStageOrder ==
    \A r \in Reqs :
        pc[r] \in HandlerPcs =>
            /\ IsPrefix(StagesOf(call[r].log), StageOrder(call[r].has_id))
            /\ pc[r] \in ReturnedPcs =>
                   StagesOf(call[r].log) = StageOrder(call[r].has_id)

\* C1 witnesses: a call with an id image has returned under aggressive
\* offload, having run the five stages.
C1_Witness ==
    \E r \in Reqs :
        /\ pc[r] = "save" /\ offload /\ aggressive_offload
        /\ call[r].has_id
        /\ Len(StagesOf(call[r].log)) = 5

IsUuid(s) ==
    /\ Len(s) = 36
    /\ \A i \in 1..36 :
          IF i \in {9, 14, 19, 24} THEN s[i] = "-" ELSE s[i] \in HexChars

\* A UUID (8-4-4-4-12 hex digits) immediately followed by ".png", nothing else.
IsUuidPng(s) ==
    /\ Len(s) = 40
    /\ IsUuid(SubSeq(s, 1, 36))
    /\ SubSeq(s, 37, 40) = <<".", "p", "n", "g">>

\* C2: the "image" name of every successful POST /generate_image is a uuid
\* followed by ".png", passes the format check of download_image and names a
\* file of the output folder, so that a download of it returns the file.
C2_RoundTrip ==
    \A r \in Reqs :
        resp[r].body = "json" =>
            /\ resp[r].status = 200
            /\ IsUuidPng(resp[r].image)
            /\ RegexMatch(resp[r].image)
            /\ resp[r].image \in files
            /\ DownloadResp(resp[r].image, files).status = 200
            /\ DownloadResp(resp[r].image, files).body = "image/png"

\* C2 witness: one request holds its generate response while another has
\* downloaded the file of that name.
C2_Witness ==
    \E r, q \in Reqs :
        /\ resp[r].body = "json"
        /\ resp[q].body = "image/png"
        /\ resp[q].req_name = resp[r].image

\* A step in which request r's download handler runs.
DownloadStep(r) == pc[r] = "pending" /\ pc'[r] = "responded"

\* C3: a download has three outcomes, decided in this order: 400 "Invalid
\* image name format" for a name failing the format check, without the file
\* system being consulted; 404 "Image not found" for a name that passes and
\* names no file; else the file as image/png.  The folder is unchanged.
C3_DownloadOutcomes ==
    [][\A r \in Reqs :
          DownloadStep(r) =>
            LET a == resp'[r]
                n == a.req_name
            IN /\ files' = files
               /\ ~RegexMatch(n) =>
                     /\ a.status = 400
                     /\ a.body = "Invalid image name format"
                     /\ ~a.exists_called
               /\ RegexMatch(n) /\ n \notin files =>
                     a.status = 404 /\ a.body = "Image not found"
               /\ RegexMatch(n) /\ n \in files =>
                     a.status = 200 /\ a.body = "image/png" /\ a.image = n
       ]_vars

\* C3 witness: with a file in the folder, one download was answered 404 and
\* another 400.
C3_Witness ==
    \E r, q \in Reqs :
        /\ files # {}
        /\ resp[r].status = 404
        /\ resp[q].status = 400

\* C4: every name that is not a UUID immediately followed by ".png" is
\* rejected with HTTP 400.
C4_OnlyUuidPngAccepted ==
    \A r \in Reqs :
        (resp[r].req_name # <<>> /\ ~IsUuidPng(resp[r].req_name)) =>
            resp[r].status = 400

\* A step in which request r's handler (of either endpoint) starts.
HandlerStarts(r) == pc[r] = "pending" /\ pc'[r] # "pending"

\* C5: no two executions of generate_image overlap: at most one request is
\* inside the generate handler, and no handler starts while another request
\* is between the start of its handler and its response (so its stages, its
\* device moves, its write of t5.max_length and its file are done first).
C5_NoOverlap ==
    /\ [](Cardinality({r \in Reqs : pc[r] \in HandlerPcs}) <= 1)
    /\ [][\A r \in Reqs :
            HandlerStarts(r) =>
                \A q \in Reqs \ {r} : pc[q] \notin HandlerPcs]_vars

\* C5 witness: one request is in denoise while another has arrived and waits.
C5_Witness ==
    \E r, q \in Reqs :
        pc[r] = "denoise" /\ pc[q] = "pending"

\* The module group each stage position uses.
StageGroup(p) ==
    CASE p = "prepare" -> "te"
      [] p = "prepare_neg" -> "te"
      [] p = "id_embed" -> "pulid"
      [] p = "denoise" -> "model"
      [] p = "decode" -> "ae"

\* C6: with offload enabled and no call having raised, every stage finds its
\* module group on the GPU when it runs: the text encoders at prepare, the
\* PuLID components at get_id_embedding, the backbone at denoise (under both
\* settings of aggressive_offload) and the decoder at decode.
C6_StageModuleOnGpu ==
    (offload /\ ~errors) =>
        \A r \in Reqs :
            /\ call[r].missed = {}
            /\ pc[r] \in {"prepare", "prepare_neg", "id_embed", "denoise",
                          "decode"} => loc[StageGroup(pc[r])] = "cuda"

\* C6 witness: under aggressive offload a call after an earlier completed one
\* has run its stages, identity embedding included, and is about to decode.
C6_Witness ==
    \E r \in Reqs :
        /\ offload /\ aggressive_offload /\ ~errors
        /\ files # {}
        /\ pc[r] = "decode"
        /\ call[r].has_id
        /\ Len(call[r].log) >= 3

Resident == {g \in Groups : loc[g] = "cuda"}

\* C7: with offload enabled and no call having raised, at most one module
\* group is on the GPU at any point from construction on, and when a call
\* has returned all four groups are on the CPU.
C7_AtMostOneResident ==
    (offload /\ ~errors) =>
        /\ Cardinality(Resident) <= 1
        /\ \A r \in Reqs : pc[r] \in ReturnedPcs => Resident = {}

\* C7 witness: a later call of a sequence has returned with offload enabled.
C7_Witness ==
    \E r \in Reqs :
        /\ offload /\ ~errors
        /\ files # {}
        /\ pc[r] = "save"

\* A step in which request r's generate_image call raises.
RaiseStep(r) == pc[r] # "failed" /\ pc'[r] = "failed"

\* C8: when a stage raises, the error reaches the caller (HTTP 500), every
\* module group stays on the device it was on, no file is written and the
\* response carries no image name and no seed.
C8_NoFailureRecovery ==
    [][\A r \in Reqs :
          RaiseStep(r) =>
            /\ loc' = loc
            /\ files' = files
            /\ resp'[r].status = 500
            /\ resp'[r].image = <<>>
            /\ resp'[r].seed = <<>>
       ]_vars

\* C8 witness: with offload enabled a call has raised in denoise and the
\* backbone is still on the GPU after the handler has ended.
C8_Witness ==
    \E r \in Reqs :
        /\ offload
        /\ pc[r] = "failed"
        /\ running = 0
        /\ loc["model"] = "cuda"

IsDecimal(s) ==
    /\ Len(s) >= 1
    /\ LET d == IF s[1] = "-" THEN Tail(s) ELSE s
       IN /\ Len(d) >= 1
          /\ \A i \in 1..Len(d) : \E k \in 1..10 : DecDigits[k] = d[i]

DigitVal(ch) == (CHOOSE k \in 1..10 : DecDigits[k] = ch) - 1

RECURSIVE NatVal(_)
NatVal(d) == IF Len(d) = 0 THEN 0
             ELSE 10 * NatVal(SubSeq(d, 1, Len(d) - 1)) + DigitVal(d[Len(d)])
\* The integer a decimal string denotes.
IntVal(s) == IF s[1] = "-" THEN 0 - NatVal(Tail(s)) ELSE NatVal(s)

\* C9: for a requested seed other than -1 the seed passed to get_noise and
\* the returned "seed" string both equal the requested seed; for -1 a fresh
\* seed is drawn and the returned string is the decimal of the seed passed
\* to get_noise, never "-1" nor "None".
C9_SeedHandling ==
    \A r \in Reqs :
        /\ pc[r] \in HandlerPcs =>
              /\ Cardinality(call[r].noise_seed) = 1
              /\ call[r].req_seed # -1 =>
                     call[r].noise_seed = {call[r].req_seed}
        /\ resp[r].body = "json" =>
              /\ IsDecimal(resp[r].seed)
              /\ resp[r].noise_seed = {IntVal(resp[r].seed)}
              /\ resp[r].seed # <<"-", "1">>
              /\ resp[r].seed # <<"N", "o", "n", "e">>
              /\ resp[r].req_seed # -1 =>
                     IntVal(resp[r].seed) = resp[r].req_seed

\* C9 witness: one response answers a request for seed -1, another a request
\* for a negative seed other than -1.
C9_Witness ==
    \E r, q \in Reqs :
        /\ resp[r].body = "json" /\ resp[r].req_seed = -1
        /\ resp[q].body = "json" /\ resp[q].req_seed = -20

\* |true_cfg - 1.0| > 0.01
FarFromOne(k) ==
    \/ 100 * (k - CfgUnit) > CfgUnit
    \/ 100 * (CfgUnit - k) > CfgUnit

\* C10: the negative prompt is encoded and cal_uncond is requested exactly
\* when |true_cfg - 1.0| > 0.01; otherwise denoise is handed None for
\* neg_txt, neg_txt_ids and neg_vec and None is never subscripted; without an
\* id image get_id_embedding is not called and denoise is handed None for id
\* and uncond_id.
C10_TrueCfgGating ==
    \A r \in Reqs :
        LET c == call[r]
            far == FarFromOne(c.true_cfg)
        IN /\ ~c.none_indexed
           /\ pc[r] \in HandlerPcs =>
                /\ c.inp_neg # "unset" => (c.inp_neg = "enc" <=> far)
                /\ Count(c.log, "prepare_neg") =
                       (IF far /\ c.inp_neg # "unset" THEN 1 ELSE 0)
                /\ c.cal_uncond \subseteq {far}
                /\ c.id_embeddings # "unset" =>
                       (c.cal_uncond # {} <=> c.has_id)
                /\ ~c.has_id => Count(c.log, "get_id_embedding") = 0
                /\ c.dn # NoDenoise =>
                       /\ c.dn.neg_txt = (IF far THEN "tensor" ELSE "None")
                       /\ c.dn.neg_txt_ids = c.dn.neg_txt
                       /\ c.dn.neg_vec = c.dn.neg_txt
                       /\ ~c.has_id =>
                              c.dn.id = "None" /\ c.dn.uncond_id = "None"

\* C10 witness: denoise has been called for a request with true_cfg just
\* inside the band around 1.0 and no id image.
C10_Witness ==
    \E r \in Reqs :
        /\ pc[r] = "model_to_cpu"
        /\ call[r].true_cfg = CfgUnit + 10
        /\ ~call[r].has_id
        /\ call[r].dn.neg_txt = "None"
====
